---- MODULE Spec2Model ----
(***************************************************************************)
(* VibeCut: the video editing workflow (planner -> retriever -> assembler) *)
(* of src/agent_graph, with the agents of src/agents it drives (Spec,      *)
(* FairSpec); the clip selection of src/utils/video_helpers.py             *)
(* (SelectorSpec); the indexing of src/videodb/indexing.py and base.py     *)
(* (IndexerSpec); the search of src/videodb/search.py (SearchSpec); two    *)
(* runs of the workflow on the same agents (ConcurrentSpec); the batches   *)
(* of uploads (UploadSpec); VideoDB.connect under the worker threads       *)
(* (ConnectSpec).  Each specification runs one component and leaves the    *)
(* others idle.                                                            *)
(*                                                                         *)
(* Python values are modelled as follows.  A dict is a function on its     *)
(* keys, so dict.get(key, default) can tell a missing key from a key whose *)
(* value is None.  An Optional value is None == <<>> or Some(v) == <<v>>.  *)
(* An f-string is the sequence of its parts, so f"Planning failed: {e}" is *)
(* <<"Planning failed: ", e>> and its prefix is its first part.  A call to *)
(* a collaborator has an outcome: it returns a value or raises an          *)
(* exception (a subclass of Exception) carrying a message.                 *)
(***************************************************************************)
EXTENDS Integers, Sequences, FiniteSets, TLC

VARIABLES
    state,        \* the VideoEditingState the graph currently holds
    pc,           \* the graph's position: the node or router to run next, or "END"
    entry_state,  \* the state the most recent node was called with
    arg_after,    \* the dict object passed to the most recent node, as the node left it
    calls,        \* the stage collaborators invoked so far, in order, each with the
                  \* step it was invoked from and whether (and with what) it raised
    search_log,   \* the outcomes of the search calls made by retrieve_clips
    escaped,      \* TRUE iff an exception left a node function (graph.invoke raises)
    \* optimize_clip_selection (src/utils/video_helpers.py)
    clips_in,         \* its argument clips
    target_duration,  \* its argument target_duration
    sorted_clips,     \* its local list, empty before the sort
    selected_clips,   \* its local list
    current_duration, \* its local sum
    examined,         \* the candidates its loop has taken from sorted_clips so far,
                      \* each with the sum at that moment and whether it was accepted
    select_pc,        \* "call", "loop" or "return"; "idle" outside a call
    \* VideoDBIndexer.index_videos_batch (src/videodb/indexing.py)
    video_ids,    \* its argument video_ids
    index_type,   \* its argument index_type
    max_workers,  \* its argument max_workers
    can_connect,  \* whether videodb.connect succeeds with the client's settings
    futures,      \* the futures submitted so far, in order: each with its video_id,
                  \* its state and, once finished, what the service did and its outcome
    pool,         \* the executor: whether it was made, the threads started, the idle count
    batch_results, \* its local dict results
    collected,    \* the futures as_completed has yielded so far
    batch_pc,     \* "call", "submit", "collect" or "return"; "idle" outside a call
    indexed,      \* a call of VideoDB.index, once made: the request and what came of it
    \* VideoDBSearch (src/videodb/search.py)
    search_video_id,  \* the argument video_id of the call: None or an id
    max_clips,        \* the argument max_clips of get_scene_clips
    service,          \* what the service does with the search: the shots it
                      \* finds, or the call that raises
    searched,         \* the method called and the value it returned, once it has
    search_pc,        \* "call" or "return"; "idle" outside a call
    \* Two runs of the workflow on the agents of src/agent_graph/nodes.py
    runs,         \* per run: the state its graph holds, its position, the state
                  \* it started from and what the collaborators did for it
    gathered,     \* the all_results list of the latest retrieve_clips call on
                  \* the module's retriever
    \* create_indexed_collection (src/videodb/indexing.py) and
    \* process_videos_batch (src/videodb/videodb_client.py)
    upload_method,   \* which of the two is called
    video_urls,      \* its argument video_urls
    upload_client,   \* the client the uploads go through: its collection_name and
                     \* the name of the collection it has cached in _collection
    uploaded_ids,    \* its local list video_ids
    failed_uploads,  \* its local list failed_uploads
    upload_log,      \* the uploads attempted so far: each url and what came of it
    index_calls,     \* the video_ids lists index_videos_batch was called with
    upload_result,   \* the dict it returns, once it has
    upload_pc,       \* "call", "upload", "index" or "return"; "idle" outside a call
    \* VideoDB.connect (src/videodb/base.py), called by the worker threads of
    \* index_videos_batch on the one client
    conn,            \* the client's _conn: None or the connection stored
    connections,     \* the connections videodb.connect has made so far
    callers,         \* per worker thread: where it is in connect() and the
                     \* connection it has just made, if any
    connect_log      \* the calls of connect() begun so far, each with its thread
                     \* and the connection it returned, once it has

workflow_vars == <<state, pc, entry_state, arg_after, calls, search_log, escaped>>

selector_vars == <<clips_in, target_duration, sorted_clips, selected_clips,
                   current_duration, examined, select_pc>>

indexer_vars == <<video_ids, index_type, max_workers, can_connect, futures, pool,
                  batch_results, collected, batch_pc, indexed>>

search_vars == <<search_video_id, max_clips, service, searched, search_pc>>

concurrent_vars == <<runs, gathered>>

upload_vars == <<upload_method, video_urls, upload_client, uploaded_ids, failed_uploads,
                 upload_log, index_calls, upload_result, upload_pc>>

connect_vars == <<conn, connections, callers, connect_log>>

vars == <<workflow_vars, selector_vars, indexer_vars, search_vars, concurrent_vars,
          upload_vars, connect_vars>>

\* What each component leaves alone: the state of the others.
outside_workflow == <<selector_vars, indexer_vars, search_vars, concurrent_vars, upload_vars,
    connect_vars>>
outside_selector == <<workflow_vars, indexer_vars, search_vars, concurrent_vars, upload_vars,
    connect_vars>>
outside_indexer == <<workflow_vars, selector_vars, search_vars, concurrent_vars, upload_vars,
    connect_vars>>
outside_search == <<workflow_vars, selector_vars, indexer_vars, concurrent_vars, upload_vars,
    connect_vars>>
outside_concurrent == <<workflow_vars, selector_vars, indexer_vars, search_vars, upload_vars,
    connect_vars>>
outside_upload == <<workflow_vars, selector_vars, indexer_vars, search_vars, concurrent_vars,
    connect_vars>>
outside_connect == <<workflow_vars, selector_vars, indexer_vars, search_vars, concurrent_vars,
    upload_vars>>

(***************************************************************************)
(* Bounds of the model.                                                    *)
(***************************************************************************)
MaxQueries == 3   \* longest search_queries list a plan carries
MaxClips == 3     \* longest list optimize_clip_selection is called with
MaxTarget == 6    \* largest target_duration it is called with
MaxIds == 3       \* longest video_ids list index_videos_batch is called with
MaxWorkers == 2   \* largest max_workers it is called with
MaxShots == 2     \* most shots one search finds
MaxUrls == 3      \* longest video_urls list a batch of uploads is called with

(***************************************************************************)
(* Python values.                                                          *)
(***************************************************************************)
None == <<>>
Some(v) == <<v>>

DictGet(d, key, default) == IF key \in DOMAIN d THEN d[key] ELSE default

Return(v) == [kind |-> "return", value |-> v, exc |-> ""]
Raise(e) == [kind |-> "raise", value |-> None, exc |-> e]

BoundedSeq(S, n) == UNION {[1..k -> S] : k \in 0..n}

\* A slice that keeps the whole list.
Take_All(list, n) == list

\* list[:n]
Take(list, n) == SubSeq(list, 1, IF Len(list) < n THEN Len(list) ELSE n)

ExcMsgs == {"boom", "timeout"}

(***************************************************************************)
(* Inputs: what the collaborators may do.                                  *)
(***************************************************************************)
QueryPool == <<"intro", "action", "finale", "crowd">>

\* The lists of search queries a plan may carry.
QueryLists == {SubSeq(QueryPool, 1, n) : n \in 0..MaxQueries}

\* planner.create_plan returns a dict (with or without a "search_queries"
\* key: _parse_plan_response returns {"raw_response": response}) or raises.
PlannerOutcomes ==
    {Return([raw_response |-> "r"])}
    \cup {Return([raw_response |-> "r", search_queries |-> q]) : q \in QueryLists}
    \cup {Raise(e) : e \in ExcMsgs}

\* The clip dicts a search may return: one segment (id, start_time,
\* end_time) of an uploaded video, found with two relevance scores.
Clips ==
    { [id |-> "v1", start_time |-> 0, end_time |-> 5, relevance_score |-> 2],
      [id |-> "v1", start_time |-> 0, end_time |-> 5, relevance_score |-> 1] }

\* One search returns each clip dict at most once, in any order.
ResultLists ==
    {s \in BoundedSeq(Clips, Cardinality(Clips)) :
        \A i, j \in 1..Len(s) : i # j => s[i] # s[j]}

\* videodb_client.search(query, collection_id, limit) returns a list of
\* clip dicts or raises.
SearchOutcomes == {Return(s) : s \in ResultLists} \cup {Raise(e) : e \in ExcMsgs}

\* The worker threads of an executor.
Workers == 1..MaxWorkers

\* The two runs of the workflow that share the agents of nodes.py.
RunIds == {"A", "B"}

\* videodb_client.create_compilation returns the video's URL or raises.
CompilationOutcomes == {Return("video_url")} \cup {Raise(e) : e \in ExcMsgs}

\* assembler.create_preview returns its placeholder URL; the node calls it
\* inside its try block, so a raising preview request is admitted too.
PreviewOutcomes == {Return("preview_url_placeholder"), Raise("preview unavailable")}

(***************************************************************************)
(* The initial state built by the front end.                               *)
(***************************************************************************)
\* settings_panel: the custom values are set only for the "custom" preset.
Settings ==
    { [preset |-> "highlights", custom_duration |-> None, custom_theme |-> None],
      [preset |-> "reel", custom_duration |-> None, custom_theme |-> None],
      [preset |-> "custom", custom_duration |-> Some(30), custom_theme |-> Some("professional")],
      [preset |-> "custom", custom_duration |-> Some(10), custom_theme |-> Some("calm")] }

initial_state(s) ==
    [ user_query |-> "make a reel",
      uploaded_clips |-> <<"v1", "v2">>,
      preset_type |-> s.preset,
      custom_duration |-> s.custom_duration,
      custom_theme |-> s.custom_theme,
      execution_plan |-> None,
      search_queries |-> <<>>,
      retrieved_clips |-> <<>>,
      selected_clips |-> <<>>,
      assembly_config |-> None,
      final_video_url |-> None,
      preview_url |-> None,
      current_step |-> "start",
      processing_status |-> <<"Initializing...">>,
      error_message |-> None,
      created_at |-> None,
      duration_estimate |-> None ]

\* {**state, key: value, ...}: a new dict, the given keys overridden.
Merge(d, upd) == [k \in DOMAIN d \cup DOMAIN upd |-> IF k \in DOMAIN upd THEN upd[k] ELSE d[k]]

\* What a node function hands back: the dict it returns, the dict it was
\* passed (as it is after the call), and whether an exception left it.
NodeResult(ret, arg, raised) == [ret |-> ret, arg |-> arg, raised |-> raised]

(***************************************************************************)
(* src/agents/retriever.py                                                 *)
(***************************************************************************)
enhance_results(results, query) == results

deduplicate_and_rank(results) == results

\* A retriever that keeps one list for all its calls.
fresh_all_results_Kept(earlier) == earlier

\* all_results = []: each call binds a new list, whatever list an earlier
\* call on the same retriever has filled.
fresh_all_results(earlier) == <<>>

\* The loop of retrieve_clips from query i on; oracle[i] is the outcome of
\* the search for the i-th query.  An exception of a search call is not
\* caught here, so it ends the loop and leaves retrieve_clips.  The list
\* gathered is what all_results holds when the call is left.
RECURSIVE search_loop(_, _, _, _)
search_loop(search_queries, oracle, i, all_results) ==
    IF i > Len(search_queries)
    THEN [kind |-> "return", value |-> deduplicate_and_rank(all_results),
          exc |-> "", searched |-> i - 1, gathered |-> all_results]
    ELSE IF oracle[i].kind = "raise"
         THEN [kind |-> "raise", value |-> None, exc |-> oracle[i].exc, searched |-> i,
               gathered |-> all_results]
         ELSE search_loop(search_queries, oracle, i + 1,
                          all_results \o enhance_results(oracle[i].value, search_queries[i]))

\* A retrieval that treats "nothing found" as a failure.
retrieve_clips_RejectEmpty(search_queries, available_clips, oracle) ==
    LET r == search_loop(search_queries, oracle, 1, <<>>)
    IN  IF r.kind = "return" /\ r.value = <<>>
        THEN [kind |-> "raise", value |-> None, exc |-> "no clips found",
              searched |-> r.searched, gathered |-> r.gathered]
        ELSE r

\* retrieve_clips called on a retriever whose latest call gathered the
\* list earlier.
retrieve_clips_on(earlier, search_queries, available_clips, oracle) ==
    search_loop(search_queries, oracle, 1, fresh_all_results(earlier))

\* retrieve_clips called on a retriever that was not used before.
retrieve_clips(search_queries, available_clips, oracle) ==
    retrieve_clips_on(<<>>, search_queries, available_clips, oracle)

(***************************************************************************)
(* src/agents/assembler.py                                                 *)
(***************************************************************************)
\* [clip["id"] for clip in clips]: a clip without "id" raises KeyError.
prepare_clips(clips, config) ==
    IF \A i \in 1..Len(clips) : "id" \in DOMAIN clips[i]
    THEN Return([i \in 1..Len(clips) |-> clips[i]["id"]])
    ELSE Raise("'id'")

assemble_video(clips, assembly_config, compilation) ==
    LET prepared == prepare_clips(clips, assembly_config)
    IN  IF prepared.kind = "raise" THEN prepared ELSE compilation

create_preview(clips, preview) == preview

(***************************************************************************)
(* src/agent_graph/nodes.py                                                *)
(***************************************************************************)
\* A handler that lets the planner's exception through.
planner_node_NoCatch(st, outcome) ==
    IF outcome.kind = "return"
    THEN NodeResult(
            Merge(st, [ execution_plan |-> Some(outcome.value),
                        search_queries |-> DictGet(outcome.value, "search_queries", <<>>),
                        current_step |-> "planning_complete",
                        processing_status |-> <<"Plan created successfully">> ]),
            st, FALSE)
    ELSE NodeResult(st, st, TRUE)

\* A handler that records the failed step but no message.
planner_node_NoMessage(st, outcome) ==
    IF outcome.kind = "return"
    THEN NodeResult(
            Merge(st, [ execution_plan |-> Some(outcome.value),
                        search_queries |-> DictGet(outcome.value, "search_queries", <<>>),
                        current_step |-> "planning_complete",
                        processing_status |-> <<"Plan created successfully">> ]),
            st, FALSE)
    ELSE NodeResult(Merge(st, [ current_step |-> "error" ]), st, FALSE)

planner_node(st, outcome) ==
    IF outcome.kind = "return"
    THEN NodeResult(
            Merge(st, [ execution_plan |-> Some(outcome.value),
                        search_queries |-> DictGet(outcome.value, "search_queries", <<>>),
                        current_step |-> "planning_complete",
                        processing_status |-> <<"Plan created successfully">> ]),
            st, FALSE)
    ELSE NodeResult(
            Merge(st, [ current_step |-> "error",
                        error_message |-> Some(<<"Planning failed: ", outcome.exc>>) ]),
            st, FALSE)

\* A handler whose message names the wrong stage.
retriever_node_WrongPrefix(st, oracle) ==
    LET r == retrieve_clips(st.search_queries, st.uploaded_clips, oracle)
    IN  IF r.kind = "return"
        THEN NodeResult(
                Merge(st, [ retrieved_clips |-> r.value,
                            selected_clips |-> Take(r.value, 5),
                            current_step |-> "retrieval_complete",
                            processing_status |-> <<"Retrieved ", Len(r.value), " clips">> ]),
                st, FALSE)
        ELSE NodeResult(
                Merge(st, [ current_step |-> "error",
                            error_message |-> Some(<<"Planning failed: ", r.exc>>) ]),
                st, FALSE)

\* retriever_node run while the module's retriever has the list earlier
\* from its latest call.
retriever_node_on(earlier, st, oracle) ==
    LET r == retrieve_clips_on(earlier, st.search_queries, st.uploaded_clips, oracle)
    IN  IF r.kind = "return"
        THEN NodeResult(
                Merge(st, [ retrieved_clips |-> r.value,
                            selected_clips |-> Take(r.value, 5),
                            current_step |-> "retrieval_complete",
                            processing_status |-> <<"Retrieved ", Len(r.value), " clips">> ]),
                st, FALSE)
        ELSE NodeResult(
                Merge(st, [ current_step |-> "error",
                            error_message |-> Some(<<"Retrieval failed: ", r.exc>>) ]),
                st, FALSE)

retriever_node(st, oracle) ==
    LET r == retrieve_clips(st.search_queries, st.uploaded_clips, oracle)
    IN  IF r.kind = "return"
        THEN NodeResult(
                Merge(st, [ retrieved_clips |-> r.value,
                            selected_clips |-> Take(r.value, 5),
                            current_step |-> "retrieval_complete",
                            processing_status |-> <<"Retrieved ", Len(r.value), " clips">> ]),
                st, FALSE)
        ELSE NodeResult(
                Merge(st, [ current_step |-> "error",
                            error_message |-> Some(<<"Retrieval failed: ", r.exc>>) ]),
                st, FALSE)

\* The assembly configuration built at the top of assembler_node's try block.
build_assembly_config(st) ==
    [ preset |-> st.preset_type,
      duration |-> DictGet(st, "custom_duration", Some(30)),
      theme |-> DictGet(st, "custom_theme", Some("default")) ]

\* The two Assembler calls of the try block, in order: the first exception
\* ends the block, otherwise both URLs are at hand.
assembler_calls(st, compilation, preview) ==
    LET video == assemble_video(st.selected_clips, build_assembly_config(st), compilation)
        prev == create_preview(st.selected_clips, preview)
    IN  IF video.kind = "raise" THEN video
        ELSE IF prev.kind = "raise" THEN prev
        ELSE Return([video_url |-> video.value, preview_url |-> prev.value])

\* A handler that stores the video's URL and the configuration as soon as
\* the video is assembled, before the preview is requested.
assembler_node_KeepsPartial(st, compilation, preview) ==
    LET r == assembler_calls(st, compilation, preview)
        video == assemble_video(st.selected_clips, build_assembly_config(st), compilation)
        partial == IF video.kind = "return"
                   THEN Merge(st, [ final_video_url |-> Some(video.value),
                                    assembly_config |-> Some(build_assembly_config(st)) ])
                   ELSE st
    IN  IF r.kind = "return"
        THEN NodeResult(
                Merge(st, [ final_video_url |-> Some(r.value.video_url),
                            preview_url |-> Some(r.value.preview_url),
                            assembly_config |-> Some(build_assembly_config(st)),
                            current_step |-> "complete",
                            processing_status |-> <<"Video created successfully">> ]),
                st, FALSE)
        ELSE NodeResult(
                Merge(partial, [ current_step |-> "error",
                                 error_message |-> Some(<<"Assembly failed: ", r.exc>>) ]),
                st, FALSE)

\* A handler that reports success without storing the preview's URL.
assembler_node_NoPreview(st, compilation, preview) ==
    LET r == assembler_calls(st, compilation, preview)
    IN  IF r.kind = "return"
        THEN NodeResult(
                Merge(st, [ final_video_url |-> Some(r.value.video_url),
                            assembly_config |-> Some(build_assembly_config(st)),
                            current_step |-> "complete",
                            processing_status |-> <<"Video created successfully">> ]),
                st, FALSE)
        ELSE NodeResult(
                Merge(st, [ current_step |-> "error",
                            error_message |-> Some(<<"Assembly failed: ", r.exc>>) ]),
                st, FALSE)

assembler_node(st, compilation, preview) ==
    LET r == assembler_calls(st, compilation, preview)
    IN  IF r.kind = "return"
        THEN NodeResult(
                Merge(st, [ final_video_url |-> Some(r.value.video_url),
                            preview_url |-> Some(r.value.preview_url),
                            assembly_config |-> Some(build_assembly_config(st)),
                            current_step |-> "complete",
                            processing_status |-> <<"Video created successfully">> ]),
                st, FALSE)
        ELSE NodeResult(
                Merge(st, [ current_step |-> "error",
                            error_message |-> Some(<<"Assembly failed: ", r.exc>>) ]),
                st, FALSE)

(***************************************************************************)
(* src/agent_graph/graph.py                                                *)
(***************************************************************************)
\* A router that does not look at the step the planner left.
route_after_planning_Ungated(st) == "retriever"

route_after_planning(st) ==
    IF st.current_step = "planning_complete" THEN "retriever" ELSE "error"

route_after_retrieval(st) ==
    IF st.current_step = "retrieval_complete" THEN "assembler" ELSE "error"

route_after_assembly(st) ==
    IF st.current_step = "complete" THEN "end" ELSE "error"

\* A path map that sends a failed planning back to the planner.
PlanningEdges_Retry == [retriever |-> "retriever", error |-> "planner"]

\* A path map whose error branch goes on to the assembler.
RetrievalEdges_GoOn == [assembler |-> "assembler", error |-> "assembler"]

\* The path maps of add_conditional_edges.
PlanningEdges == [retriever |-> "retriever", error |-> "END"]
RetrievalEdges == [assembler |-> "assembler", error |-> "END"]
AssemblyEdges == [end |-> "END", error |-> "END"]

\* The record of one invocation of a stage collaborator.
Call(who, st, outcome) ==
    [callee |-> who, step |-> st.current_step,
     raised |-> outcome.kind = "raise", exc |-> outcome.exc]

\* The search calls one run of retrieve_clips makes, as a list of their
\* outcomes: one call per query in order, up to the first that raises.
IsSearchLog(search_queries, log) ==
    /\ \A i \in 1..(Len(log) - 1) : log[i].kind = "return"
    /\ \/ Len(log) = Len(search_queries)
       \/ Len(log) >= 1 /\ log[Len(log)].kind = "raise"

\* No run of the workflow is under way.
NoWorkflow ==
    /\ state = initial_state(CHOOSE s \in Settings : TRUE)
    /\ pc = "idle"
    /\ entry_state = state
    /\ arg_after = state
    /\ calls = <<>>
    /\ search_log = <<>>
    /\ escaped = FALSE

\* No indexing is under way.
NoIndexing ==
    /\ video_ids = <<>>
    /\ index_type = "spoken_words"
    /\ max_workers = 3
    /\ can_connect = TRUE
    /\ futures = <<>>
    /\ pool = [made |-> FALSE, threads |-> 0, idle |-> 0]
    /\ batch_results = <<>>
    /\ collected = {}
    /\ batch_pc = "idle"
    /\ indexed = None

\* No search is under way.
NoSearch ==
    /\ search_video_id = None
    /\ max_clips = 5
    /\ service = Return(<<>>)
    /\ searched = None
    /\ search_pc = "idle"

\* No thread is in connect(), and the client has made no connection.
NoConnect ==
    /\ conn = None
    /\ connections = 0
    /\ callers = [t \in Workers |-> [pc |-> "idle", made |-> None, call |-> 0]]
    /\ connect_log = <<>>

\* No batch of uploads is under way.
NoUpload ==
    /\ upload_method = "process_videos_batch"
    /\ video_urls = <<>>
    /\ upload_client = [collection_name |-> "vibecut_videos", _collection |-> None]
    /\ uploaded_ids = <<>>
    /\ failed_uploads = <<>>
    /\ upload_log = <<>>
    /\ index_calls = <<>>
    /\ upload_result = None
    /\ upload_pc = "idle"

\* No two runs are under way.
NoConcurrent ==
    /\ runs = [r \in RunIds |->
                  [state |-> initial_state(CHOOSE s \in Settings : TRUE), pc |-> "idle",
                   initial |-> initial_state(CHOOSE s \in Settings : TRUE),
                   outcomes |-> <<>>]]
    /\ gathered = <<>>

\* No call of optimize_clip_selection is under way.
NoSelection ==
    /\ clips_in = <<>>
    /\ target_duration = 0
    /\ sorted_clips = <<>>
    /\ selected_clips = <<>>
    /\ current_duration = 0
    /\ examined = <<>>
    /\ select_pc = "idle"

\* A node has run: the graph takes the dict it returned, or, when the node
\* raised, graph.invoke raises and the run is over.
AfterNode(res, router) ==
    /\ state' = IF res.raised THEN state ELSE res.ret
    /\ arg_after' = res.arg
    /\ entry_state' = state
    /\ escaped' = res.raised
    /\ pc' = IF res.raised THEN "END" ELSE router

Init ==
    /\ \E s \in Settings : state = initial_state(s)
    /\ pc = "planner"
    /\ entry_state = state
    /\ arg_after = state
    /\ calls = <<>>
    /\ search_log = <<>>
    /\ escaped = FALSE
    /\ NoSelection
    /\ NoIndexing
    /\ NoSearch
    /\ NoConcurrent
    /\ NoUpload
    /\ NoConnect

PlannerNode ==
    /\ pc = "planner"
    /\ \E outcome \in PlannerOutcomes :
          /\ LET res == planner_node(state, outcome)
             IN  AfterNode(res, "route_after_planning")
          /\ calls' = Append(calls, Call("planner", state, outcome))
    /\ UNCHANGED search_log
    /\ UNCHANGED outside_workflow

RouteAfterPlanning ==
    /\ pc = "route_after_planning"
    /\ pc' = PlanningEdges[route_after_planning(state)]
    /\ UNCHANGED <<state, entry_state, arg_after, calls, search_log, escaped>>
    /\ UNCHANGED outside_workflow

RetrieverNode ==
    /\ pc = "retriever"
    /\ \E n \in 0..Len(state.search_queries) :
          \E log \in [1..n -> SearchOutcomes] :
              /\ IsSearchLog(state.search_queries, log)
              /\ search_log' = log
              /\ LET res == retriever_node(state, log)
                 IN  AfterNode(res, "route_after_retrieval")
              /\ calls' = Append(calls, Call("retriever", state,
                     retrieve_clips(state.search_queries, state.uploaded_clips, log)))
    /\ UNCHANGED outside_workflow

RouteAfterRetrieval ==
    /\ pc = "route_after_retrieval"
    /\ pc' = RetrievalEdges[route_after_retrieval(state)]
    /\ UNCHANGED <<state, entry_state, arg_after, calls, search_log, escaped>>
    /\ UNCHANGED outside_workflow

AssemblerNode ==
    /\ pc = "assembler"
    /\ \E compilation \in CompilationOutcomes, preview \in PreviewOutcomes :
          /\ LET res == assembler_node(state, compilation, preview)
             IN  AfterNode(res, "route_after_assembly")
          /\ calls' = Append(calls, Call("assembler", state,
                                          assembler_calls(state, compilation, preview)))
    /\ UNCHANGED search_log
    /\ UNCHANGED outside_workflow

RouteAfterAssembly ==
    /\ pc = "route_after_assembly"
    /\ pc' = AssemblyEdges[route_after_assembly(state)]
    /\ UNCHANGED <<state, entry_state, arg_after, calls, search_log, escaped>>
    /\ UNCHANGED outside_workflow

Next ==
    \/ PlannerNode
    \/ RouteAfterPlanning
    \/ RetrieverNode
    \/ RouteAfterRetrieval
    \/ AssemblerNode
    \/ RouteAfterAssembly

Spec == Init /\ [][Next]_vars

\* graph.invoke runs the graph to its END: every enabled step is taken.
FairSpec == Spec /\ WF_vars(Next)

(***************************************************************************)
(* src/utils/video_helpers.py: optimize_clip_selection, one step per       *)
(* iteration of its loop.  Durations and scores are whole numbers here.    *)
(***************************************************************************)
\* The clip dicts the selector may be given; the last has no "duration".
SelectorClips ==
    { [id |-> "c1", relevance_score |-> 3, duration |-> 4],
      [id |-> "c2", relevance_score |-> 2, duration |-> 3],
      [id |-> "c3", relevance_score |-> 1, duration |-> 2],
      [id |-> "c4", relevance_score |-> 1] }

SelectorInputs == BoundedSeq(SelectorClips, MaxClips)

\* A sort that puts a clip before the clips of its score it came after.
RECURSIVE sorted_by_relevance_Unstable(_)
sorted_by_relevance_Unstable(list) ==
    IF list = <<>> THEN <<>>
    ELSE LET front == sorted_by_relevance_Unstable(SubSeq(list, 1, Len(list) - 1))
             x == list[Len(list)]
             k == Cardinality({i \in 1..Len(front) :
                     DictGet(front[i], "relevance_score", 0)
                         > DictGet(x, "relevance_score", 0)})
         IN  SubSeq(front, 1, k) \o <<x>> \o SubSeq(front, k + 1, Len(front))

\* sorted(list, key=lambda x: x.get("relevance_score", 0), reverse=True):
\* the sort is stable, clips of equal score keep their order.
RECURSIVE sorted_by_relevance(_)
sorted_by_relevance(list) ==
    IF list = <<>> THEN <<>>
    ELSE LET front == sorted_by_relevance(SubSeq(list, 1, Len(list) - 1))
             x == list[Len(list)]
             k == Cardinality({i \in 1..Len(front) :
                     DictGet(front[i], "relevance_score", 0)
                         >= DictGet(x, "relevance_score", 0)})
         IN  SubSeq(front, 1, k) \o <<x>> \o SubSeq(front, k + 1, Len(front))

\* A test that lets every candidate in.
fits_Always(current, clip_duration, target) == TRUE

\* A test with < for <=.
fits_Strict(current, clip_duration, target) == current + clip_duration < target

\* A test that leaves the candidate's duration out.
fits_WithoutClip(current, clip_duration, target) == current <= target

\* current_duration + clip_duration <= target_duration
fits(current, clip_duration, target) == current + clip_duration <= target

\* A test that never ends the loop early.
enough_Never(current, target) == FALSE

\* current_duration >= target_duration * 0.8
enough(current, target) == current * 10 >= target * 8

\* Lines 47-56 as a whole: the loop over the clips of list from the i-th
\* on, with the clips appended and their sum so far.
RECURSIVE selection_loop(_, _, _, _, _)
selection_loop(list, i, chosen, current, target) ==
    IF i > Len(list) THEN chosen
    ELSE LET clip_duration == DictGet(list[i], "duration", 0)
             accepted == fits(current, clip_duration, target)
             total == IF accepted THEN current + clip_duration ELSE current
             appended == IF accepted THEN Append(chosen, list[i]) ELSE chosen
         IN  IF enough(total, target) THEN appended
             ELSE selection_loop(list, i + 1, appended, total, target)

\* optimize_clip_selection(clips, target_duration), from call to return.
optimize_clip_selection(list, target) ==
    IF list = <<>> THEN <<>>
    ELSE selection_loop(sorted_by_relevance(list), 1, <<>>, 0, target)

SelectInit ==
    /\ NoWorkflow
    /\ NoIndexing
    /\ NoSearch
    /\ NoConcurrent
    /\ NoUpload
    /\ NoConnect
    /\ clips_in \in SelectorInputs
    /\ target_duration \in 0..MaxTarget
    /\ sorted_clips = <<>>
    /\ selected_clips = <<>>
    /\ current_duration = 0
    /\ examined = <<>>
    /\ select_pc = "call"

\* Lines 38-45: the empty list is returned at once, any other is sorted.
SelectSort ==
    /\ select_pc = "call"
    /\ sorted_clips' = sorted_by_relevance(clips_in)
    /\ select_pc' = IF clips_in = <<>> THEN "return" ELSE "loop"
    /\ UNCHANGED <<clips_in, target_duration, selected_clips, current_duration, examined>>
    /\ UNCHANGED outside_selector

\* Lines 47-56: one iteration of the loop, on the next clip of sorted_clips.
SelectExamine ==
    /\ select_pc = "loop"
    /\ LET clip == sorted_clips[Len(examined) + 1]
           clip_duration == DictGet(clip, "duration", 0)
           accepted == fits(current_duration, clip_duration, target_duration)
           total == IF accepted THEN current_duration + clip_duration
                    ELSE current_duration
       IN  /\ selected_clips' = IF accepted THEN Append(selected_clips, clip)
                                ELSE selected_clips
           /\ current_duration' = total
           /\ examined' = Append(examined, [clip |-> clip, before |-> current_duration,
                                            accepted |-> accepted])
           /\ select_pc' = IF \/ enough(total, target_duration)
                              \/ Len(examined) + 1 = Len(sorted_clips)
                           THEN "return" ELSE "loop"
    /\ UNCHANGED <<clips_in, target_duration, sorted_clips>>
    /\ UNCHANGED outside_selector

SelectNext ==
    \/ SelectSort
    \/ SelectExamine

SelectorSpec == SelectInit /\ [][SelectNext]_vars

(***************************************************************************)
(* src/videodb/indexing.py and src/videodb/base.py: indexing one video,    *)
(* and a batch of videos on a pool of worker threads.                      *)
(***************************************************************************)
\* The members of IndexType, and "both": a kind the enum does not have.
IndexTypes == {"spoken_words", "scenes", "both"}

\* What the service does during one indexing: nothing goes wrong, or the
\* named call raises (the indexing call being the one the kind asks for).
\* videodb.connect(api_key=settings.VIDEO_DB_API_KEY) goes by the client's
\* settings: it raises in every indexing of a client or in none.
ServiceFailures(connects) ==
    IF connects THEN {"none", "get_video", "index"} ELSE {"connect"}

\* The lists of video ids of a batch, up to the names of the ids: the
\* first id is "a", the next new one "b", then "c", "d".
IdPool == <<"a", "b", "c", "d">>

VideoIdLists ==
    {l \in BoundedSeq({IdPool[k] : k \in 1..MaxIds}, MaxIds) :
        \A i \in 1..Len(l) : \E k \in 1..MaxIds :
            /\ l[i] = IdPool[k]
            /\ \A j \in 1..(k - 1) : \E h \in 1..(i - 1) : l[h] = IdPool[j]}

\* One indexing: the service calls made, in order, the value returned and
\* whether an exception left the method.
Indexing(service_calls, ret, exc_left) ==
    [service_calls |-> service_calls, ret |-> ret, raised |-> exc_left]

\* The service call a kind asks for, None for a kind the method does not know.
indexing_call(kind) ==
    IF kind = "spoken_words" THEN Some("index_spoken_words")
    ELSE IF kind = "scenes" THEN Some("index_scenes")
    ELSE None

\* VideoDBIndexer.index_video: an exception of any call is caught and
\* False returned; a kind other than the two returns False, nothing indexed.
index_video(kind, failure) ==
    IF failure = "connect" THEN Indexing(<<"connect">>, FALSE, FALSE)
    ELSE IF failure = "get_video" THEN Indexing(<<"connect", "get_video">>, FALSE, FALSE)
    ELSE IF indexing_call(kind) = None
         THEN Indexing(<<"connect", "get_video">>, FALSE, FALSE)
    ELSE Indexing(<<"connect", "get_video">> \o indexing_call(kind),
                  failure # "index", FALSE)

\* VideoDB.index: as index_video, but a kind other than the two falls
\* through to "return True".
index(kind, failure) ==
    IF failure = "connect" THEN Indexing(<<"connect">>, FALSE, FALSE)
    ELSE IF failure = "get_video" THEN Indexing(<<"connect", "get_video">>, FALSE, FALSE)
    ELSE IF indexing_call(kind) = None
         THEN Indexing(<<"connect", "get_video">>, TRUE, FALSE)
    ELSE Indexing(<<"connect", "get_video">> \o indexing_call(kind),
                  failure # "index", FALSE)

\* A future as executor.submit returns it.
Future(video_id) ==
    [video_id |-> video_id, state |-> "PENDING", failure |-> "none",
     done |-> Indexing(<<>>, FALSE, FALSE)]

Running == {i \in 1..Len(futures) : futures[i].state = "RUNNING"}
Pending == {i \in 1..Len(futures) : futures[i].state = "PENDING"}

\* A pool that starts a thread for every task.
may_start_thread_Unbounded(threads, limit) == TRUE

\* ThreadPoolExecutor(max_workers): a submit starts a new worker thread
\* only while fewer than max_workers exist.
may_start_thread(threads, limit) == threads < limit

\* A dict that keeps the successes only.
store_result_SuccessOnly(d, video_id, success) ==
    IF success THEN [k \in DOMAIN d \cup {video_id} |-> IF k = video_id THEN success ELSE d[k]]
    ELSE d

\* A failure that takes the entries stored before it along.
store_result_FailureSpreads(d, video_id, success) ==
    [k \in DOMAIN d \cup {video_id} |-> IF k = video_id THEN success ELSE d[k] /\ success]

\* results[video_id] = success
store_result(d, video_id, success) ==
    [k \in DOMAIN d \cup {video_id} |-> IF k = video_id THEN success ELSE d[k]]

\* A batch that goes into the executor whatever the list.
no_video_ids_Never(list) == FALSE

\* if not video_ids
no_video_ids(list) == Len(list) = 0

\* A loop that is left after the first future it is given.
as_completed_exhausted_First(yielded, fs) == yielded # {}

\* for future in as_completed(future_to_video): the loop ends when every
\* future submitted has been yielded, that is, has finished.
as_completed_exhausted(yielded, fs) == yielded = 1..Len(fs)

IndexInit ==
    /\ NoWorkflow
    /\ NoSelection
    /\ NoSearch
    /\ NoConcurrent
    /\ NoUpload
    /\ NoConnect
    /\ video_ids \in VideoIdLists
    /\ index_type \in IndexTypes
    /\ max_workers \in 1..MaxWorkers
    /\ can_connect \in BOOLEAN
    /\ futures = <<>>
    /\ pool = [made |-> FALSE, threads |-> 0, idle |-> 0]
    /\ batch_results = <<>>
    /\ collected = {}
    /\ batch_pc = "call"
    /\ indexed = None

\* VideoDB.index(video_id, index_type), called once on a client.
Index ==
    /\ batch_pc = "call"
    /\ indexed = None
    /\ \E failure \in ServiceFailures(can_connect) :
          indexed' = Some([kind |-> index_type, failure |-> failure,
                           done |-> index(index_type, failure)])
    /\ batch_pc' = "indexed"
    /\ UNCHANGED <<video_ids, index_type, max_workers, can_connect, futures, pool,
                   batch_results, collected>>
    /\ UNCHANGED outside_indexer

\* Lines 63-70: no ids, the empty dict is returned at once; else the
\* executor is made and the comprehension submits a task per id (none,
\* were the list empty here).
BatchCall ==
    /\ batch_pc = "call"
    /\ IF no_video_ids(video_ids)
       THEN /\ batch_pc' = "return"
            /\ pool' = pool
       ELSE /\ batch_pc' = IF Len(video_ids) = 0 THEN "return" ELSE "submit"
            /\ pool' = [pool EXCEPT !.made = TRUE]
    /\ UNCHANGED <<video_ids, index_type, max_workers, can_connect, futures,
                   batch_results, collected, indexed>>
    /\ UNCHANGED outside_indexer

\* Lines 72-75: the next id's task is submitted.  The pool starts a thread
\* for it unless a worker is idle or max_workers threads exist.
Submit ==
    /\ batch_pc = "submit"
    /\ futures' = Append(futures, Future(video_ids[Len(futures) + 1]))
    /\ pool' = IF pool.idle > 0 THEN [pool EXCEPT !.idle = @ - 1]
               ELSE IF may_start_thread(pool.threads, max_workers)
                    THEN [pool EXCEPT !.threads = @ + 1]
               ELSE pool
    /\ batch_pc' = IF Len(futures) + 1 = Len(video_ids) THEN "collect" ELSE "submit"
    /\ UNCHANGED <<video_ids, index_type, max_workers, can_connect, batch_results, collected, indexed>>
    /\ UNCHANGED outside_indexer

\* A worker thread without a task takes the oldest task of the queue.
Start ==
    /\ batch_pc \in {"submit", "collect"}
    /\ Pending # {}
    /\ Cardinality(Running) < pool.threads
    /\ LET i == CHOOSE p \in Pending : \A q \in Pending : p <= q
       IN  futures' = [futures EXCEPT ![i].state = "RUNNING"]
    /\ UNCHANGED <<video_ids, index_type, max_workers, can_connect, pool, batch_results,
                   collected, batch_pc, indexed>>
    /\ UNCHANGED outside_indexer

\* A worker's index_video(video_id, index_type, scene_prompt) ends.
Finish ==
    /\ batch_pc \in {"submit", "collect"}
    /\ \E i \in Running, failure \in ServiceFailures(can_connect) :
          futures' = [futures EXCEPT ![i].state = "FINISHED",
                                     ![i].failure = failure,
                                     ![i].done = index_video(index_type, failure)]
    /\ pool' = [pool EXCEPT !.idle = @ + 1]
    /\ UNCHANGED <<video_ids, index_type, max_workers, can_connect, batch_results,
                   collected, batch_pc, indexed>>
    /\ UNCHANGED outside_indexer

\* Lines 78-85: as_completed yields a finished future, in no fixed order;
\* its result, or False if result() raises, is stored under its video_id.
\* Lines 87-90: after the last one the dict is returned.
Collect ==
    /\ batch_pc = "collect"
    /\ \E i \in 1..Len(futures) :
          /\ futures[i].state = "FINISHED"
          /\ i \notin collected
          /\ batch_results' = store_result(batch_results, futures[i].video_id,
                                 IF futures[i].done.raised THEN FALSE
                                 ELSE futures[i].done.ret)
          /\ collected' = collected \cup {i}
          /\ batch_pc' = IF as_completed_exhausted(collected', futures)
                          THEN "return" ELSE "collect"
    /\ UNCHANGED <<video_ids, index_type, max_workers, can_connect, futures, pool, indexed>>
    /\ UNCHANGED outside_indexer

IndexNext ==
    \/ Index
    \/ BatchCall
    \/ Submit
    \/ Start
    \/ Finish
    \/ Collect

IndexerSpec == IndexInit /\ [][IndexNext]_vars

(***************************************************************************)
(* src/videodb/search.py: one search, as a results object and as clips.    *)
(***************************************************************************)
\* The shots a search may find; the second has no score and no description.
Shots ==
    { [start |-> 0, end |-> 5, video_id |-> "v1", score |-> 2, description |-> "goal"],
      [start |-> 5, end |-> 9, video_id |-> "v1"] }

\* The service finds shots (none, if nothing matches) or one of its calls
\* raises: connect, get_video or get_collection ("fetch"), or search.
SearchBehaviours ==
    {Return(l) : l \in BoundedSeq(Shots, MaxShots)}
    \cup {Raise(e) : e \in {"connect", "fetch", "search"}}

\* search_scenes: the results object of video.search or collection.search;
\* an exception of any call is caught and None returned.
search_scenes(video_id, behaviour) ==
    IF behaviour.kind = "raise" THEN None
    ELSE Some([shots |-> behaviour.value])

\* get_scene_clips: [] if search_scenes returned None, else one clip dict
\* for each of the first max_clips shots.
get_scene_clips(video_id, limit, behaviour) ==
    LET found == search_scenes(video_id, behaviour)
    IN  IF found = None THEN <<>>
        ELSE LET shots == Take(found[1].shots, limit)
             IN  [i \in 1..Len(shots) |->
                    [ start_time |-> shots[i].start,
                      end_time |-> shots[i].end,
                      duration |-> shots[i].end - shots[i].start,
                      video_id |-> shots[i].video_id,
                      description |-> DictGet(shots[i], "description", ""),
                      relevance_score |-> DictGet(shots[i], "score", 0) ]]

SearchInit ==
    /\ NoWorkflow
    /\ NoSelection
    /\ NoIndexing
    /\ NoConcurrent
    /\ NoUpload
    /\ NoConnect
    /\ search_video_id \in {None, Some("v1")}
    /\ max_clips \in 0..(MaxShots + 1)
    /\ service \in SearchBehaviours
    /\ searched = None
    /\ search_pc = "call"

\* VideoDBSearch.search_scenes(query, video_id)
SearchScenes ==
    /\ search_pc = "call"
    /\ searched' = Some([method |-> "search_scenes",
                         value |-> search_scenes(search_video_id, service)])
    /\ search_pc' = "return"
    /\ UNCHANGED <<search_video_id, max_clips, service>>
    /\ UNCHANGED outside_search

\* VideoDBSearch.get_scene_clips(query, video_id, max_clips)
GetSceneClips ==
    /\ search_pc = "call"
    /\ searched' = Some([method |-> "get_scene_clips",
                         value |-> get_scene_clips(search_video_id, max_clips, service)])
    /\ search_pc' = "return"
    /\ UNCHANGED <<search_video_id, max_clips, service>>
    /\ UNCHANGED outside_search

SearchNext ==
    \/ SearchScenes
    \/ GetSceneClips

SearchSpec == SearchInit /\ [][SearchNext]_vars

(***************************************************************************)
(* Two runs of the workflow at the same time.  The node functions of       *)
(* src/agent_graph/nodes.py work on the state dict they are passed and on  *)
(* the module's planner, retriever and assembler (lines 13-20), which both *)
(* runs share.  A node touches nothing but its own dicts and locals, so a  *)
(* run takes a node as one step; the steps of the two runs interleave in   *)
(* any order, one run after the other included.                            *)
(***************************************************************************)
\* The settings the two runs start from.
RunSettings == {s \in Settings : s.preset = "custom"}

RunQueryLists == {<<>>, <<"intro">>, <<"intro", "action">>}

RunPlannerOutcomes ==
    {Return([raw_response |-> "r", search_queries |-> q]) : q \in RunQueryLists}
    \cup {Raise("boom")}

RunSearchOutcomes ==
    {Return(<<>>), Raise("timeout")} \cup {Return(<<c>>) : c \in Clips}

RunAssemblyOutcomes ==
    {[compilation |-> c, preview |-> Return("preview_url_placeholder")] :
        c \in {Return("video_url"), Raise("boom")}}

\* A run that graph.invoke has just been given the state st.
Run(st) == [state |-> st, pc |-> "planner", initial |-> st, outcomes |-> <<>>]

\* The run after a node: the graph takes the dict the node returned and
\* its router names the node to go on with.
after_node(run, res, next, outcome) ==
    [run EXCEPT !.state = IF res.raised THEN @ ELSE res.ret,
                !.pc = IF res.raised THEN "END" ELSE next,
                !.outcomes = Append(@, outcome)]

ConcurrentInit ==
    /\ NoWorkflow
    /\ NoSelection
    /\ NoIndexing
    /\ NoSearch
    /\ NoUpload
    /\ NoConnect
    /\ runs \in [RunIds -> {Run(initial_state(s)) : s \in RunSettings}]
    /\ gathered = <<>>

ConcurrentPlanner ==
    /\ \E r \in RunIds :
          /\ runs[r].pc = "planner"
          /\ \E outcome \in RunPlannerOutcomes :
                LET res == planner_node(runs[r].state, outcome)
                IN  runs' = [runs EXCEPT ![r] =
                                after_node(@, res, PlanningEdges[route_after_planning(res.ret)],
                                           outcome)]
    /\ UNCHANGED gathered
    /\ UNCHANGED outside_concurrent

ConcurrentRetriever ==
    /\ \E r \in RunIds :
          /\ runs[r].pc = "retriever"
          /\ LET st == runs[r].state
             IN  \E n \in 0..Len(st.search_queries) :
                    \E log \in [1..n -> RunSearchOutcomes] :
                        /\ IsSearchLog(st.search_queries, log)
                        /\ LET res == retriever_node_on(gathered, st, log)
                           IN  runs' = [runs EXCEPT ![r] =
                                   after_node(@, res,
                                       RetrievalEdges[route_after_retrieval(res.ret)], log)]
                        /\ gathered' = retrieve_clips_on(gathered, st.search_queries,
                                                         st.uploaded_clips, log).gathered
    /\ UNCHANGED outside_concurrent

ConcurrentAssembler ==
    /\ \E r \in RunIds :
          /\ runs[r].pc = "assembler"
          /\ \E outcome \in RunAssemblyOutcomes :
                LET res == assembler_node(runs[r].state, outcome.compilation, outcome.preview)
                IN  runs' = [runs EXCEPT ![r] =
                                after_node(@, res, AssemblyEdges[route_after_assembly(res.ret)],
                                           outcome)]
    /\ UNCHANGED gathered
    /\ UNCHANGED outside_concurrent

ConcurrentNext ==
    \/ ConcurrentPlanner
    \/ ConcurrentRetriever
    \/ ConcurrentAssembler

ConcurrentSpec == ConcurrentInit /\ [][ConcurrentNext]_vars

(***************************************************************************)
(* The batches of uploads: VideoDBIndexer.create_indexed_collection        *)
(* (src/videodb/indexing.py) and VideoDBClient.process_videos_batch        *)
(* (src/videodb/videodb_client.py).  Both upload the urls one by one and   *)
(* hand the ids of the uploaded videos to index_videos_batch, whose result *)
(* is an input here: a dict with a bool for each id, in completion order.  *)
(***************************************************************************)
UrlPool == <<"u1", "u2", "u3", "u4">>

UploadUrlLists == {SubSeq(UrlPool, 1, n) : n \in 0..MaxUrls}

UploadMethods == {"create_indexed_collection", "process_videos_batch"}

\* The orders of n things.
Orders(n) == {p \in [1..n -> 1..n] : \A i, j \in 1..n : i # j => p[i] # p[j]}

\* What index_videos_batch may return for ids: the items of its dict.
IndexingResults(ids) ==
    {[i \in 1..Len(ids) |-> [video_id |-> ids[p[i]], success |-> ok[i]]] :
        p \in Orders(Len(ids)), ok \in [1..Len(ids) -> BOOLEAN]}

\* VideoDB.get_collection: the cached collection, or the one of the
\* client's collection_name, fetched over the connection and cached.
get_collection(client, reachable) ==
    IF client._collection # None THEN [client |-> client, raised |-> FALSE]
    ELSE IF reachable
         THEN [client |-> [client EXCEPT !._collection = Some(client.collection_name)],
               raised |-> FALSE]
    ELSE [client |-> client, raised |-> TRUE]

\* What the service may do with an upload through client.
UploadBehaviours(client) ==
    IF client._collection = None
    THEN {"uploaded", "upload_raises", "get_collection_raises"}
    ELSE {"uploaded", "upload_raises"}

\* VideoDB.upload: the id of the uploaded video, or the exception of
\* get_collection or of collection.upload.
upload(client, new_id, behaviour) ==
    LET got == get_collection(client, behaviour # "get_collection_raises")
    IN  IF got.raised THEN [outcome |-> Raise("no collection"), client |-> got.client]
        ELSE IF behaviour = "upload_raises"
             THEN [outcome |-> Raise("upload failed"), client |-> got.client]
        ELSE [outcome |-> Return(new_id), client |-> got.client]

\* One turn of the upload loop: the id is appended to video_ids, or the
\* exception is caught and the url appended to failed_uploads.
upload_step(ids, failed, url, outcome) ==
    IF outcome.kind = "return"
    THEN [video_ids |-> Append(ids, outcome.value), failed_uploads |-> failed]
    ELSE [video_ids |-> ids, failed_uploads |-> Append(failed, url)]

\* A batch that calls index_videos_batch whatever was uploaded.
should_index_Always(ids) == TRUE

\* if video_ids
should_index(ids) == Len(ids) > 0

\* The ids of the items whose indexing succeeded, in the dict's order.
RECURSIVE successful_videos(_)
successful_videos(items) ==
    IF items = <<>> THEN <<>>
    ELSE (IF Head(items).success THEN <<Head(items).video_id>> ELSE <<>>)
         \o successful_videos(Tail(items))

\* The dict each method returns.
batch_result(method, client, urls, ids, failed, indexing_results) ==
    IF method = "create_indexed_collection"
    THEN [ collection_name |-> client.collection_name,
           total_videos |-> Len(urls),
           uploaded_videos |-> Len(ids),
           failed_uploads |-> failed,
           indexing_results |-> indexing_results,
           video_ids |-> ids ]
    ELSE [ total_videos |-> Len(urls),
           uploaded_videos |-> Len(ids),
           indexed_videos |-> Len(successful_videos(indexing_results)),
           failed_uploads |-> failed,
           ready_video_ids |-> successful_videos(indexing_results),
           success_rate |-> <<Len(successful_videos(indexing_results)), "/", Len(urls)>> ]

UploadInit ==
    /\ NoWorkflow
    /\ NoSelection
    /\ NoIndexing
    /\ NoSearch
    /\ NoConcurrent
    /\ NoConnect
    /\ upload_method \in UploadMethods
    /\ video_urls \in UploadUrlLists
    /\ upload_client \in {[collection_name |-> "vibecut_videos", _collection |-> c] :
                             c \in {None, Some("vibecut_videos")}}
    /\ uploaded_ids = <<>>
    /\ failed_uploads = <<>>
    /\ upload_log = <<>>
    /\ index_calls = <<>>
    /\ upload_result = None
    /\ upload_pc = "call"

\* The method is entered: create_indexed_collection takes the new
\* collection's name and drops the cached collection (lines 110-112).
UploadCall ==
    /\ upload_pc = "call"
    /\ upload_client' = IF upload_method = "create_indexed_collection"
                        THEN [collection_name |-> "new_collection", _collection |-> None]
                        ELSE upload_client
    /\ upload_pc' = IF video_urls = <<>> THEN "index" ELSE "upload"
    /\ UNCHANGED <<upload_method, video_urls, uploaded_ids, failed_uploads, upload_log,
                   index_calls, upload_result>>
    /\ UNCHANGED outside_upload

\* One turn of the loop over video_urls.
UploadOne ==
    /\ upload_pc = "upload"
    /\ LET k == Len(upload_log) + 1
       IN  \E behaviour \in UploadBehaviours(upload_client) :
              LET done == upload(upload_client, IdPool[k], behaviour)
                  after == upload_step(uploaded_ids, failed_uploads, video_urls[k],
                                       done.outcome)
              IN  /\ upload_client' = done.client
                  /\ uploaded_ids' = after.video_ids
                  /\ failed_uploads' = after.failed_uploads
                  /\ upload_log' = Append(upload_log,
                                          [url |-> video_urls[k], outcome |-> done.outcome])
                  /\ upload_pc' = IF k = Len(video_urls) THEN "index" ELSE "upload"
    /\ UNCHANGED <<upload_method, video_urls, index_calls, upload_result>>
    /\ UNCHANGED outside_upload

\* The uploaded videos are indexed, if there are any, and the dict is returned.
IndexUploaded ==
    /\ upload_pc = "index"
    /\ IF should_index(uploaded_ids)
       THEN /\ index_calls' = Append(index_calls, uploaded_ids)
            /\ \E indexing_results \in IndexingResults(uploaded_ids) :
                  upload_result' = Some(batch_result(upload_method, upload_client,
                                        video_urls, uploaded_ids, failed_uploads,
                                        indexing_results))
       ELSE /\ index_calls' = index_calls
            /\ upload_result' = Some(batch_result(upload_method, upload_client, video_urls,
                                                  uploaded_ids, failed_uploads, <<>>))
    /\ upload_pc' = "return"
    /\ UNCHANGED <<upload_method, video_urls, upload_client, uploaded_ids, failed_uploads,
                   upload_log>>
    /\ UNCHANGED outside_upload

UploadNext ==
    \/ UploadCall
    \/ UploadOne
    \/ IndexUploaded

UploadSpec == UploadInit /\ [][UploadNext]_vars

(***************************************************************************)
(* VideoDB.connect (src/videodb/base.py 19-23) under the worker threads of *)
(* index_videos_batch.  Each index_video task calls self.connect() on the  *)
(* one indexer (indexing.py 28), so up to max_workers threads are in       *)
(* connect() at once.  The method holds no lock: the test of _conn, the    *)
(* call of videodb.connect, the assignment and the return are steps of     *)
(* their own, and the threads take them in any order.                      *)
(***************************************************************************)
\* self._conn as connect() finds it: falsy or not.
has_connection(stored) == stored # None

ConnectInit ==
    /\ NoWorkflow
    /\ NoSelection
    /\ NoIndexing
    /\ NoSearch
    /\ NoConcurrent
    /\ NoUpload
    /\ conn = None
    /\ connections = 0
    /\ callers = [t \in Workers |-> [pc |-> "idle", made |-> None, call |-> 0]]
    /\ connect_log = <<>>

\* A worker begins an index_video task and with it a call of connect():
\* one call per task of the batch.
CallConnect ==
    /\ Len(connect_log) < MaxIds
    /\ \E t \in Workers :
          /\ callers[t].pc = "idle"
          /\ connect_log' = Append(connect_log,
                                   [thread |-> t, returned |-> None, raised |-> FALSE])
          /\ callers' = [callers EXCEPT ![t] =
                            [pc |-> "test", made |-> None, call |-> Len(connect_log) + 1]]
    /\ UNCHANGED <<conn, connections>>
    /\ UNCHANGED outside_connect

\* Line 21: if not self._conn
TestConn ==
    /\ \E t \in Workers :
          /\ callers[t].pc = "test"
          /\ callers' = [callers EXCEPT ![t].pc =
                            IF has_connection(conn) THEN "return" ELSE "connect"]
    /\ UNCHANGED <<conn, connections, connect_log>>
    /\ UNCHANGED outside_connect

\* Line 22, right-hand side: videodb.connect makes a connection, or raises
\* and the exception leaves connect().
MakeConnection ==
    /\ \E t \in Workers :
          /\ callers[t].pc = "connect"
          /\ \/ /\ connections' = connections + 1
                /\ callers' = [callers EXCEPT ![t].pc = "assign",
                                              ![t].made = Some(connections + 1)]
                /\ UNCHANGED connect_log
             \/ /\ callers' = [callers EXCEPT ![t].pc = "idle"]
                /\ connect_log' = [connect_log EXCEPT ![callers[t].call].raised = TRUE]
                /\ UNCHANGED connections
    /\ UNCHANGED conn
    /\ UNCHANGED outside_connect

\* Line 22, assignment: self._conn = the connection just made.
AssignConn ==
    /\ \E t \in Workers :
          /\ callers[t].pc = "assign"
          /\ conn' = callers[t].made
          /\ callers' = [callers EXCEPT ![t].pc = "return"]
    /\ UNCHANGED <<connections, connect_log>>
    /\ UNCHANGED outside_connect

\* Line 23: return self._conn
ReturnConn ==
    /\ \E t \in Workers :
          /\ callers[t].pc = "return"
          /\ connect_log' = [connect_log EXCEPT ![callers[t].call].returned = conn]
          /\ callers' = [callers EXCEPT ![t].pc = "idle"]
    /\ UNCHANGED <<conn, connections>>
    /\ UNCHANGED outside_connect

ConnectNext ==
    \/ CallConnect
    \/ TestConn
    \/ MakeConnection
    \/ AssignConn
    \/ ReturnConn

ConnectSpec == ConnectInit /\ [][ConnectNext]_vars

(***************************************************************************)
(* src/utils/preset_configs.py                                             *)
(***************************************************************************)
\* PRESETS, with the key the assembly could take its duration from.
PRESETS ==
    [ highlights |-> [name |-> "Highlights", default_duration |-> 60],
      reel |-> [name |-> "Social Media Reel", default_duration |-> 30],
      custom |-> [name |-> "Custom", default_duration |-> 45] ]

\* PRESETS.get(preset_type, PRESETS["custom"])
get_preset_config(preset_type) == DictGet(PRESETS, preset_type, PRESETS["custom"])

(***************************************************************************)
(* Properties of the workflow.                                             *)
(***************************************************************************)
Terminal == {"complete", "error"}

Callees == {calls[i].callee : i \in 1..Len(calls)}

LastCall == calls[Len(calls)]

\* C1: every run of the workflow reaches the graph's END, it is then in
\* step "complete" or "error", and once the step is "complete" or "error"
\* no stage collaborator is invoked any more and the step stays as it is.
C1_RunEndsCompleteOrError ==
    /\ <>(pc = "END")
    /\ [](pc = "END" => state.current_step \in Terminal)
    /\ [][state.current_step \in Terminal =>
             /\ state'.current_step = state.current_step
             /\ calls' = calls]_vars

\* A run that ended complete after all three stages ran.
C1_Witness ==
    /\ pc = "END"
    /\ state.current_step = "complete"
    /\ Len(calls) = 3

\* C2: error_message is set if and only if the step is "error".
C2_ErrorMessageIffError ==
    (state.error_message # None) <=> (state.current_step = "error")

\* A failed run, carrying its message.
C2_Witness ==
    /\ state.current_step = "error"
    /\ state.error_message # None
    /\ pc = "END"

\* C3: the retriever is invoked only from step "planning_complete" and the
\* assembler only from step "retrieval_complete"; in step "error" no stage
\* is pending, a run that ended before its assembler was invoked ended in
\* step "error", and a stage whose collaborator raised is the last one run.
C3_StageGating ==
    /\ \A i \in 1..Len(calls) :
          /\ calls[i].callee = "retriever" => calls[i].step = "planning_complete"
          /\ calls[i].callee = "assembler" => calls[i].step = "retrieval_complete"
    /\ state.current_step = "error" => pc \notin {"planner", "retriever", "assembler"}
    /\ (pc = "END" /\ "assembler" \notin Callees) => state.current_step = "error"
    /\ \A i \in 1..Len(calls) : calls[i].raised => i = Len(calls)

\* A run that ended after its planner failed: no retrieval, no assembly.
C3_Witness ==
    /\ pc = "END"
    /\ Callees = {"planner"}
    /\ LastCall.raised
    /\ state.current_step = "error"

\* C4: no exception of a stage collaborator leaves its node function: the
\* node returns, and the state it returns is in step "error".
C4_NoExceptionEscapes ==
    /\ ~escaped
    /\ \A i \in 1..Len(calls) : calls[i].raised => state.current_step = "error"

\* The preview request raised after the video was assembled, and the
\* assembler node returned.
C4_Witness ==
    /\ calls # <<>>
    /\ LastCall.callee = "assembler"
    /\ LastCall.raised
    /\ LastCall.exc = "preview unavailable"
    /\ pc = "route_after_assembly"
    /\ state.current_step = "error"
    /\ ~escaped

\* The first part of the message each stage's handler writes.
StagePrefix ==
    [planner |-> "Planning failed: ", retriever |-> "Retrieval failed: ",
     assembler |-> "Assembly failed: "]

\* C5: after a stage's collaborator raised, error_message is the failed
\* stage's prefix followed by the exception's text.
C5_MessageNamesFailedStage ==
    \A i \in 1..Len(calls) :
        calls[i].raised =>
            /\ state.current_step = "error"
            /\ state.error_message = Some(<<StagePrefix[calls[i].callee], calls[i].exc>>)

\* A search raised, so the retrieval stage failed.
C5_Witness ==
    /\ calls # <<>>
    /\ LastCall.callee = "retriever"
    /\ LastCall.raised
    /\ state.error_message = Some(<<"Retrieval failed: ", "timeout">>)

\* The keys a failing stage may write.
FailureKeys == {"current_step", "error_message"}

\* C6: the state a failed stage returns differs from the state it was
\* called with in current_step and error_message only, and no node changes
\* the dict it is passed.
C6_FailureFrame ==
    /\ arg_after = entry_state
    /\ state.current_step = "error" =>
          /\ DOMAIN state = DOMAIN entry_state
          /\ \A k \in DOMAIN state \ FailureKeys : state[k] = entry_state[k]

\* The video was assembled from the selected clips and the preview request
\* raised: the clips and the plan are kept, no URL and no configuration is
\* stored.
C6_Witness ==
    /\ state.current_step = "error"
    /\ calls # <<>>
    /\ LastCall.callee = "assembler"
    /\ LastCall.exc = "preview unavailable"
    /\ state.selected_clips # <<>>
    /\ state.execution_plan # None
    /\ state.final_video_url = None
    /\ state.assembly_config = None

\* C7: each stage collaborator is invoked at most once in a run.
C7_EachStageAtMostOnce ==
    \A i, j \in 1..Len(calls) : calls[i].callee = calls[j].callee => i = j

\* A run that ended in a failure of its retrieval stage, with a single
\* invocation of the planner and of the retriever behind it.
C7_Witness ==
    /\ pc = "END"
    /\ Len(calls) = 2
    /\ LastCall.callee = "retriever"
    /\ LastCall.raised

\* The retrieval ran, no search raised and no search returned a clip.
ZeroClipsRetrieved ==
    /\ "retriever" \in Callees
    /\ \A i \in 1..Len(search_log) :
          search_log[i].kind = "return" /\ search_log[i].value = <<>>

\* C8: a retrieval that yields no clip is no error: it leaves step
\* "retrieval_complete" with empty retrieved_clips and selected_clips, the
\* assembler is invoked with the empty selection, and the run ends
\* "complete" unless the assembler raises.
C8_ZeroClipsIsNoError ==
    ZeroClipsRetrieved =>
        /\ state.retrieved_clips = <<>>
        /\ state.selected_clips = <<>>
        /\ LastCall.callee = "retriever" => state.current_step = "retrieval_complete"
        /\ pc = "END" =>
              /\ LastCall.callee = "assembler"
              /\ LastCall.step = "retrieval_complete"
              /\ ~LastCall.raised => state.current_step = "complete"

\* A run with two queries that both matched nothing, ended "complete".
C8_Witness ==
    /\ ZeroClipsRetrieved
    /\ Len(search_log) = 2
    /\ pc = "END"
    /\ state.current_step = "complete"
    /\ state.selected_clips = <<>>

(***************************************************************************)
(* Properties of the retrieval.                                            *)
(***************************************************************************)
\* The results of the searches of log that returned, concatenated in order.
RECURSIVE Merged(_)
Merged(log) ==
    IF log = <<>> THEN <<>>
    ELSE (IF Head(log).kind = "return" THEN Head(log).value ELSE <<>>) \o Merged(Tail(log))

\* The identity of a clip: its video and its time span.
ClipKey(c) == <<c.id, c.start_time, c.end_time>>

RetrievalDone == state.current_step \in {"retrieval_complete", "complete"}

\* C9: a search that raises counts as a search without results: whichever
\* searches raised, the retrieval stage ends in step "retrieval_complete"
\* with the results of the searches that returned.
C9_FailedQueryIsTolerated ==
    (calls # <<>> /\ LastCall.callee = "retriever") =>
        /\ state.current_step = "retrieval_complete"
        /\ state.retrieved_clips = Merged(search_log)

\* C10: the retrieved clips hold each identity (id, start_time, end_time)
\* once, and for every clip a search returned the retrieved clip of that
\* identity has a relevance score at least as high.
C10_OneClipPerIdentity ==
    RetrievalDone =>
        /\ \A i, j \in 1..Len(state.retrieved_clips) :
              ClipKey(state.retrieved_clips[i]) = ClipKey(state.retrieved_clips[j]) => i = j
        /\ \A n \in 1..Len(Merged(search_log)) :
              \E i \in 1..Len(state.retrieved_clips) :
                  /\ ClipKey(state.retrieved_clips[i]) = ClipKey(Merged(search_log)[n])
                  /\ state.retrieved_clips[i].relevance_score
                        >= Merged(search_log)[n].relevance_score

\* C11: the retrieved clips are ranked: non-increasing in relevance_score
\* and, among clips of equal relevance_score, non-decreasing in start_time
\* and then in id.
C11_RetrievedClipsRanked ==
    RetrievalDone =>
        \A i, j \in 1..Len(state.retrieved_clips) :
            i < j =>
                LET a == state.retrieved_clips[i]
                    b == state.retrieved_clips[j]
                IN  /\ a.relevance_score >= b.relevance_score
                    /\ a.relevance_score = b.relevance_score =>
                          a.start_time <= b.start_time

(***************************************************************************)
(* Properties of the selection.                                            *)
(***************************************************************************)
\* sum(clip.get("duration", 0) for clip in list)
RECURSIVE calculate_total_duration(_)
calculate_total_duration(list) ==
    IF list = <<>> THEN 0
    ELSE DictGet(Head(list), "duration", 0) + calculate_total_duration(Tail(list))

\* C12: the durations of the selected clips never add up to more than
\* target_duration (a duration: zero or more), during the selection and in
\* the list it returns.
C12_SelectionWithinBudget ==
    /\ calculate_total_duration(selected_clips) <= target_duration
    /\ current_duration = calculate_total_duration(selected_clips)

\* Durations 4, 3, 2 with target 6: the first is accepted, the second does
\* not fit, the third fills the budget.
C12_Witness ==
    /\ select_pc = "return"
    /\ target_duration = 6
    /\ Len(examined) = 3
    /\ ~examined[2].accepted
    /\ Len(selected_clips) = 2
    /\ calculate_total_duration(selected_clips) = 6

\* The accumulated duration d has reached 0.8 * target_duration.
Reached(d) == 5 * d >= 4 * target_duration

\* C13: no candidate is examined once the accumulated duration is at least
\* 0.8 * target_duration, at any point of the iteration, the point before
\* the first candidate included.
C13_EarlyStopFromTheStart ==
    \A k \in 1..Len(examined) : ~Reached(examined[k].before)

\* C13, amended: the threshold is tested after each candidate, so the first
\* candidate of a list is always examined; from then on no candidate is
\* examined once the accumulated duration is at least 0.8 * target_duration,
\* and the loop ends only for that reason or for want of candidates.
C13_EarlyStopAfterEachCandidate ==
    /\ \A k \in 2..Len(examined) : ~Reached(examined[k].before)
    /\ (select_pc = "return" /\ clips_in # <<>>) =>
          /\ Len(examined) >= 1
          /\ Reached(current_duration) \/ Len(examined) = Len(sorted_clips)
    /\ (select_pc = "loop" /\ examined # <<>>) => ~Reached(current_duration)

\* Target 5, the clip of duration 4 accepted: 4 >= 0.8 * 5, and the clip
\* without a duration, which would fit, is never looked at.
C13_Witness ==
    /\ select_pc = "return"
    /\ target_duration = 5
    /\ Len(examined) = 1
    /\ current_duration = 4
    /\ Len(sorted_clips) = 2
    /\ current_duration + DictGet(sorted_clips[2], "duration", 0) <= target_duration

(***************************************************************************)
(* Properties of the indexing.                                             *)
(***************************************************************************)
BatchReturned == batch_pc = "return"

IdsOf(list) == {list[i] : i \in 1..Len(list)}

\* The futures that carry video_id.
FuturesOf(video_id) == {i \in 1..Len(futures) : futures[i].video_id = video_id}

\* The indexing of future i went through: the indexing call its kind asks
\* for was made and did not raise.
Succeeded(i) ==
    /\ futures[i].state = "FINISHED"
    /\ futures[i].failure = "none"
    /\ \E n \in 1..Len(futures[i].done.service_calls) :
          futures[i].done.service_calls[n] \in {"index_spoken_words", "index_scenes"}

\* C14: the dict index_videos_batch returns has exactly the ids of
\* video_ids as its keys, whatever became of each indexing; before that the
\* dict has no key that is not an id of video_ids.
C14_OneEntryPerId ==
    /\ DOMAIN batch_results \subseteq IdsOf(video_ids)
    /\ BatchReturned => DOMAIN batch_results = IdsOf(video_ids)

\* Three different ids, every indexing failed: three entries, all False.
C14_Witness ==
    /\ BatchReturned
    /\ Cardinality(IdsOf(video_ids)) = 3
    /\ \A i \in 1..Len(futures) : futures[i].failure # "none"
    /\ \A id \in IdsOf(video_ids) : batch_results[id] = FALSE

\* C15: at no moment are more than max_workers index_video calls running.
C15_BoundedConcurrency ==
    Cardinality(Running) <= max_workers

\* Two workers, both busy, a third task waiting in the queue.
C15_Witness ==
    /\ max_workers = 2
    /\ Cardinality(Running) = 2
    /\ Pending # {}

\* The last future that carries video_id.
LastFutureOf(video_id) ==
    CHOOSE i \in FuturesOf(video_id) : \A j \in FuturesOf(video_id) : j <= i

\* C16: the dict returned depends on video_ids and on what each indexing
\* returned only, not on max_workers or on the order of completion: it is
\* the dict of the run that takes the futures in the order of video_ids.
C16_ResultIndependentOfSchedule ==
    BatchReturned =>
        \A id \in IdsOf(video_ids) :
            batch_results[id] = futures[LastFutureOf(id)].done.ret

\* C17: the entry of an id is True only if an indexing of that id went
\* through and False only if one did not; for an id that occurs once it is
\* True exactly if its indexing went through, whatever the others did; and
\* the dict is returned only after every future was finished and collected.
C17_SiblingIsolation ==
    /\ \A i \in collected :
          LET id == futures[i].video_id
          IN  /\ batch_results[id] => \E j \in FuturesOf(id) : Succeeded(j)
              /\ ~batch_results[id] => \E j \in FuturesOf(id) : ~Succeeded(j)
    /\ BatchReturned =>
          /\ Len(futures) = Len(video_ids)
          /\ collected = 1..Len(futures)
          /\ \A i \in 1..Len(futures) : futures[i].state = "FINISHED"

\* Ids a, b, c on one worker, the indexing call of b raising.
C17_Witness ==
    /\ BatchReturned
    /\ video_ids = <<"a", "b", "c">>
    /\ max_workers = 1
    /\ futures[2].failure = "index"
    /\ Len(futures[2].done.service_calls) = 3
    /\ batch_results = [id \in {"a", "b", "c"} |-> id # "b"]

\* Every indexing made so far: each finished index_video of the batch and
\* the call of VideoDB.index, with the kind asked for and what the service did.
Indexings ==
    {[kind |-> index_type, failure |-> futures[i].failure, done |-> futures[i].done] :
        i \in {n \in 1..Len(futures) : futures[n].state = "FINISHED"}}
    \cup {indexed[n] : n \in 1..Len(indexed)}

IndexingCalls == {"index_spoken_words", "index_scenes"}

CallsMade(x) == IdsOf(x.done.service_calls)

\* A service call of indexing x raised.
ServiceRaised(x) ==
    \/ x.failure \in {"connect", "get_video"}
    \/ x.failure = "index" /\ CallsMade(x) \cap IndexingCalls # {}

\* The indexing calls kind asks for.
Requested(kind) ==
    IF kind = "spoken_words" THEN {"index_spoken_words"}
    ELSE IF kind = "scenes" THEN {"index_scenes"}
    ELSE IndexingCalls

\* C18: an indexing lets no exception out; it returns False if connecting,
\* fetching the video or the indexing call raised, and True only if the
\* indexing calls asked for were made and did not raise.
C18_IndexNeverRaises ==
    \A x \in Indexings :
        /\ ~x.done.raised
        /\ ServiceRaised(x) => ~x.done.ret
        /\ x.done.ret => /\ ~ServiceRaised(x)
                         /\ Requested(x.kind) \subseteq CallsMade(x)

\* C19: an indexing of kind "both" makes both indexing calls unless
\* connecting or fetching the video raised, and returns True exactly if no
\* service call raised.
C19_BothIndexesBoth ==
    \A x \in Indexings :
        x.kind = "both" =>
            /\ x.failure \in {"none", "index"} => IndexingCalls \subseteq CallsMade(x)
            /\ x.done.ret <=> x.failure = "none"

(***************************************************************************)
(* Properties of the search.                                               *)
(***************************************************************************)
\* What a method returns for a search that went through and matched nothing.
ZeroMatch(method) ==
    IF method = "search_scenes" THEN search_scenes(search_video_id, Return(<<>>))
    ELSE get_scene_clips(search_video_id, max_clips, Return(<<>>))

\* C20: a search in which a service call raised does not return the value
\* the same method returns for a search that matched nothing.
C20_FailureIsNotEmpty ==
    (searched # None /\ service.kind = "raise") =>
        searched[1].value # ZeroMatch(searched[1].method)

(***************************************************************************)
(* Properties of the assembly configuration.                               *)
(***************************************************************************)
\* C22: the assembly configuration of a run carries the custom duration and
\* theme where the request has them, and the default duration of the
\* request's preset where it has no custom duration.
C22_ConfigCarriesPresetDefaults ==
    state.assembly_config # None =>
        LET config == state.assembly_config[1]
        IN  /\ config.preset = state.preset_type
            /\ state.custom_duration # None => config.duration = state.custom_duration
            /\ state.custom_theme # None => config.theme = state.custom_theme
            /\ state.custom_duration = None =>
                  config.duration = Some(get_preset_config(state.preset_type).default_duration)

\* The duration a request asks for: its custom duration, else the default
\* of its preset.
RequestedDuration(st) ==
    IF st.custom_duration # None THEN st.custom_duration[1]
    ELSE get_preset_config(st.preset_type).default_duration

\* end_time - start_time of the clips of list, added up.
RECURSIVE TotalSpan(_)
TotalSpan(list) ==
    IF list = <<>> THEN 0
    ELSE Head(list).end_time - Head(list).start_time + TotalSpan(Tail(list))

\* C23: after a retrieval that succeeded, selected_clips is what
\* optimize_clip_selection makes of retrieved_clips and the duration the
\* request asks for, and the selected clips together are no longer than
\* that duration.
C23_SelectionIsBudgeted ==
    RetrievalDone =>
        /\ state.selected_clips =
              optimize_clip_selection(state.retrieved_clips, RequestedDuration(state))
        /\ TotalSpan(state.selected_clips) <= RequestedDuration(state)

(***************************************************************************)
(* More properties of the selection.                                       *)
(***************************************************************************)
Duration(clip) == DictGet(clip, "duration", 0)

\* C25: each candidate the loop takes is accepted exactly if the sum so
\* far plus its duration is at most target_duration, the sum grows by the
\* accepted durations only, and a candidate that does not fit ends nothing:
\* unless the threshold is reached the next candidate is taken.
C25_SkipsWithoutAborting ==
    /\ \A k \in 1..Len(examined) :
          /\ examined[k].accepted <=>
                examined[k].before + Duration(examined[k].clip) <= target_duration
          /\ (IF k < Len(examined) THEN examined[k + 1].before ELSE current_duration)
                = examined[k].before
                    + (IF examined[k].accepted THEN Duration(examined[k].clip) ELSE 0)
    /\ (select_pc = "return" /\ examined # <<>>
            /\ ~examined[Len(examined)].accepted /\ ~Reached(current_duration)) =>
          Len(examined) = Len(sorted_clips)

\* Durations 4, 3, 2 in ranked order with target 6: c1 accepted, c2 skipped,
\* c3 accepted after it; the selection is c1, c3.
C25_Witness ==
    /\ select_pc = "return"
    /\ target_duration = 6
    /\ [k \in 1..Len(examined) |-> examined[k].clip.id] = <<"c1", "c2", "c3">>
    /\ [k \in 1..Len(examined) |-> examined[k].accepted] = <<TRUE, FALSE, TRUE>>
    /\ [k \in 1..Len(selected_clips) |-> selected_clips[k].id] = <<"c1", "c3">>

IsRanked(list) ==
    \A i, j \in 1..Len(list) :
        i < j => DictGet(list[i], "relevance_score", 0) >= DictGet(list[j], "relevance_score", 0)

\* The elements of list at the positions of S, in the order of list.
RECURSIVE Pick(_, _)
Pick(list, S) ==
    IF list = <<>> THEN <<>>
    ELSE Pick(SubSeq(list, 1, Len(list) - 1), S)
            \o (IF Len(list) \in S THEN <<list[Len(list)]>> ELSE <<>>)

Subsequences(list) == {Pick(list, S) : S \in SUBSET (1..Len(list))}

\* How often clip stands in list.
Count(list, clip) == Cardinality({i \in 1..Len(list) : list[i] = clip})

\* C26: the selected clips of a ranked input are a subsequence of it: each
\* is a clip of the input, taken once, and they stand in the order they
\* have in the input.  Of any input, they are a subsequence of the input
\* as sorted by relevance, which holds the clips of the input and is ranked.
C26_SelectionIsSubsequence ==
    /\ IsRanked(clips_in) => selected_clips \in Subsequences(clips_in)
    /\ select_pc # "call" =>
          /\ selected_clips \in Subsequences(sorted_clips)
          /\ IsRanked(sorted_clips)
          /\ \A c \in SelectorClips : Count(sorted_clips, c) = Count(clips_in, c)

\* A ranked input with two clips of one score, the first of them (c4, of
\* no duration) and the clip before it selected, in the input's order.
C26_Witness ==
    /\ select_pc = "return"
    /\ [k \in 1..Len(clips_in) |-> clips_in[k].id] = <<"c2", "c4", "c3">>
    /\ target_duration = 4
    /\ [k \in 1..Len(selected_clips) |-> selected_clips[k].id] = <<"c2", "c4">>

\* Each clip of the input is longer than target_duration.
AllTooLong == \A i \in 1..Len(clips_in) : Duration(clips_in[i]) > target_duration

\* C27: if each clip is longer than target_duration, the selection returns
\* the empty list after its loop has taken every candidate; the empty list
\* yields the empty list.
C27_AllTooLongExaminesAll ==
    (select_pc = "return" /\ AllTooLong) =>
        /\ selected_clips = <<>>
        /\ Len(examined) = Len(clips_in)

\* C27, amended: if each clip is longer than target_duration, the selection
\* returns the empty list; its loop has taken every candidate if
\* target_duration is above zero and the first candidate only if it is
\* zero (0 >= 0.8 * 0 ends the loop); the empty list yields the empty list,
\* no candidate taken.
C27_AllTooLongYieldsEmpty ==
    /\ AllTooLong => selected_clips = <<>>
    /\ (select_pc = "return" /\ AllTooLong /\ clips_in # <<>>) =>
          Len(examined) = (IF target_duration > 0 THEN Len(clips_in) ELSE 1)
    /\ (select_pc = "return" /\ clips_in = <<>>) =>
          selected_clips = <<>> /\ examined = <<>>

\* Three clips of durations 4, 3, 2 and target 1: all taken, none selected.
C27_Witness ==
    /\ select_pc = "return"
    /\ target_duration = 1
    /\ Len(clips_in) = 3
    /\ AllTooLong
    /\ Len(examined) = 3
    /\ selected_clips = <<>>

(***************************************************************************)
(* More properties of the indexing.                                        *)
(***************************************************************************)
\* C29: for an empty list of ids index_videos_batch returns the empty
\* dict with no executor made, no task submitted, no worker thread started
\* and no indexing done; for any other list the executor is made.
C29_EmptyBatchIsNoOp ==
    BatchReturned =>
        IF video_ids = <<>>
        THEN /\ batch_results = <<>>
             /\ ~pool.made
             /\ pool.threads = 0
             /\ futures = <<>>
             /\ Indexings = {}
        ELSE pool.made

\* The call with no ids has returned.
C29_Witness ==
    /\ BatchReturned
    /\ video_ids = <<>>
    /\ batch_results = <<>>

\* C28: a task is submitted for each element of video_ids, in order, and
\* none beyond them (no indexing is run a second time after it failed);
\* when the dict is returned each task has run once and the entry of an
\* element whose indexing returned False is False.
C28_OneInvocationPerElement ==
    /\ Len(futures) <= Len(video_ids)
    /\ \A i \in 1..Len(futures) : futures[i].video_id = video_ids[i]
    /\ BatchReturned =>
          /\ Len(futures) = Len(video_ids)
          /\ \A i \in 1..Len(futures) :
                /\ futures[i].state = "FINISHED"
                /\ ~futures[i].done.ret => ~batch_results[video_ids[i]]

(***************************************************************************)
(* More properties of the retrieval.                                       *)
(***************************************************************************)
\* The orders in which the results of n searches may arrive.
ArrivalOrders(n) ==
    {p \in [1..n -> 1..n] : \A i, j \in 1..n : i # j => p[i] # p[j]}

\* The results of the searches of log, put together in arrival order p.
MergedIn(log, p) == Merged([i \in 1..Len(log) |-> log[p[i]]])

\* C30: the retrieved clips do not depend on the order in which the
\* results of the searches are put together: _deduplicate_and_rank makes
\* of every arrival order of the same results the list the run retrieved.
C30_MergeOrderIndependent ==
    RetrievalDone =>
        \A p \in ArrivalOrders(Len(search_log)) :
            deduplicate_and_rank(MergedIn(search_log, p)) = state.retrieved_clips

(***************************************************************************)
(* Properties of two runs on the same agents.                              *)
(***************************************************************************)
\* The state a run that is the only one reaches from st0 when the
\* collaborators do for it what outs lists, call by call.
RunAlone(st0, outs) ==
    IF Len(outs) = 0 THEN st0
    ELSE LET planned == planner_node(st0, outs[1]).ret
         IN  IF Len(outs) = 1 THEN planned
             ELSE LET retrieved == retriever_node(planned, outs[2]).ret
                  IN  IF Len(outs) = 2 THEN retrieved
                      ELSE assembler_node(retrieved, outs[3].compilation,
                                          outs[3].preview).ret

\* Run r has been through its retriever node.
Retrieved(r) == Len(runs[r].outcomes) >= 2

\* The retrieval of run r ended with an exception.
RetrievalFailed(r) ==
    /\ runs[r].state.error_message # None
    /\ runs[r].state.error_message[1][1] = "Retrieval failed: "

\* C21: two calls of retrieve_clips on the module's retriever, with the
\* same queries, the same clips to search and every search doing the same
\* both times, leave the same retrieved clips in the same order (or fail
\* with the same message): the first call leaves nothing behind that the
\* second one sees.
C21_RetrieveTwiceSame ==
    \A r, q \in RunIds :
        ( /\ Retrieved(r)
          /\ Retrieved(q)
          /\ runs[r].state.search_queries = runs[q].state.search_queries
          /\ runs[r].state.uploaded_clips = runs[q].state.uploaded_clips
          /\ runs[r].outcomes[2] = runs[q].outcomes[2] )
        => /\ runs[r].state.retrieved_clips = runs[q].state.retrieved_clips
           /\ runs[r].state.selected_clips = runs[q].state.selected_clips
           /\ RetrievalFailed(r) <=> RetrievalFailed(q)
           /\ RetrievalFailed(r) => runs[r].state.error_message = runs[q].state.error_message

\* Both runs searched "intro" and "action" and found one clip for each.
C21_Witness ==
    /\ \A r \in RunIds :
          /\ Retrieved(r)
          /\ runs[r].state.search_queries = <<"intro", "action">>
          /\ Len(runs[r].state.retrieved_clips) = 2
    /\ runs["A"].outcomes[2] = runs["B"].outcomes[2]
    /\ runs["A"].state.retrieved_clips = gathered

\* C24: at every moment the state of each of the two runs is the state
\* the run reaches alone from its own initial state with the same outcomes
\* of its collaborators; what the other run plans, retrieves or assembles
\* shows in none of its fields.
C24_RunsDoNotInterfere ==
    \A r \in RunIds :
        /\ runs[r].state = RunAlone(runs[r].initial, runs[r].outcomes)
        /\ Len(runs[r].outcomes) <= 3
        /\ runs[r].pc = "END" =>
              runs[r].state.current_step \in {"error", "complete"}

\* Both runs are between retrieval and assembly, started from different
\* states and holding different clips; B's retrieval was the later one.
C24_Witness ==
    /\ runs["A"].pc = "assembler"
    /\ runs["B"].pc = "assembler"
    /\ runs["A"].initial # runs["B"].initial
    /\ Len(runs["A"].state.retrieved_clips) = 2
    /\ Len(runs["B"].state.retrieved_clips) = 1
    /\ gathered = runs["B"].state.retrieved_clips

\* The identities of the clips of a list.
KeysOf(list) == {ClipKey(list[i]) : i \in 1..Len(list)}

\* C31: retrieve_clips returns one clip for every identity a search that
\* returned has found, and no more: as many clips as there are different
\* identities among the results of its searches.
C31_OneClipPerKeyFound ==
    RetrievalDone =>
        /\ KeysOf(state.retrieved_clips) = KeysOf(Merged(search_log))
        /\ Len(state.retrieved_clips) = Cardinality(KeysOf(Merged(search_log)))

\* The query a clip is tagged with, None if it carries no tag.
SourceQuery(c) == DictGet(c, "source_query", DictGet(c, "search_query", None))

\* C32: every retrieved clip is tagged with the query of a search that
\* returned it.
C32_ClipsCarrySourceQuery ==
    RetrievalDone =>
        \A i \in 1..Len(state.retrieved_clips) :
            \E n \in 1..Len(search_log) :
                /\ search_log[n].kind = "return"
                /\ SourceQuery(state.retrieved_clips[i]) = Some(state.search_queries[n])
                /\ \E k \in 1..Len(search_log[n].value) :
                      ClipKey(search_log[n].value[k]) = ClipKey(state.retrieved_clips[i])

(***************************************************************************)
(* More properties of the workflow.                                        *)
(***************************************************************************)
\* C33: a state in step "complete" carries final_video_url, preview_url
\* and assembly_config, and final_video_url is set in no state of another
\* step.
C33_CompleteCarriesUrls ==
    /\ state.current_step = "complete" =>
          /\ state.final_video_url # None
          /\ state.preview_url # None
          /\ state.assembly_config # None
    /\ state.final_video_url # None => state.current_step = "complete"

\* A run that ended complete, with both URLs and the configuration.
C33_Witness ==
    /\ pc = "END"
    /\ state.current_step = "complete"
    /\ state.final_video_url = Some("video_url")
    /\ state.preview_url = Some("preview_url_placeholder")
    /\ state.assembly_config = Some(build_assembly_config(state))

\* The smaller of two numbers.
Min(a, b) == IF a < b THEN a ELSE b

\* The elements of a list.
ElementsOf(list) == {list[i] : i \in 1..Len(list)}

\* C34: after a retrieval that succeeded selected_clips is the first
\* min(5, len(retrieved_clips)) clips of retrieved_clips, in their order,
\* and the assembler is called with clips of retrieved_clips only.
C34_SelectedIsPrefix ==
    /\ RetrievalDone =>
          /\ Len(state.selected_clips) = Min(5, Len(state.retrieved_clips))
          /\ \A i \in 1..Len(state.selected_clips) :
                state.selected_clips[i] = state.retrieved_clips[i]
    /\ (calls # <<>> /\ LastCall.callee = "assembler") =>
          /\ Len(entry_state.selected_clips) <= 5
          /\ ElementsOf(entry_state.selected_clips)
                \subseteq ElementsOf(entry_state.retrieved_clips)

\* Three searches found two clips each: six retrieved, five selected and
\* handed to the assembler.
C34_Witness ==
    /\ calls # <<>>
    /\ LastCall.callee = "assembler"
    /\ Len(state.retrieved_clips) = 6
    /\ Len(state.selected_clips) = 5
    /\ Len(entry_state.selected_clips) = 5

\* The planner of the run returned a plan.
PlanningSucceeded ==
    /\ calls # <<>>
    /\ calls[1].callee = "planner"
    /\ ~calls[1].raised

\* C35: execution_plan is set in steps "planning_complete",
\* "retrieval_complete" and "complete"; retrieved_clips and selected_clips
\* hold clips only if the planner of the run returned a plan; and
\* assembly_config is set only in step "complete".
C35_DataFollowsStages ==
    /\ state.current_step \in {"planning_complete", "retrieval_complete", "complete"}
          => state.execution_plan # None
    /\ (state.retrieved_clips # <<>> \/ state.selected_clips # <<>>)
          => PlanningSucceeded /\ state.execution_plan # None
    /\ state.assembly_config # None => state.current_step = "complete"

\* The assembly failed after a retrieval that found clips: the plan and
\* the clips are there, the configuration is not.
C35_Witness ==
    /\ pc = "END"
    /\ state.current_step = "error"
    /\ LastCall.callee = "assembler"
    /\ state.execution_plan # None
    /\ state.retrieved_clips # <<>>
    /\ state.assembly_config = None

(***************************************************************************)
(* Properties of the batches of uploads.                                   *)
(***************************************************************************)
UploadReturned == upload_pc = "return"

\* The ids of the uploads of the log that went through, in order.
RECURSIVE UploadedIn(_)
UploadedIn(log) ==
    IF log = <<>> THEN <<>>
    ELSE (IF Head(log).outcome.kind = "return" THEN <<Head(log).outcome.value>> ELSE <<>>)
         \o UploadedIn(Tail(log))

\* The urls of the uploads of the log that raised, in order.
RECURSIVE FailedIn(_)
FailedIn(log) ==
    IF log = <<>> THEN <<>>
    ELSE (IF Head(log).outcome.kind = "raise" THEN <<Head(log).url>> ELSE <<>>)
         \o FailedIn(Tail(log))

\* C36: a batch of uploads tries every url, in order, whichever uploads
\* raise; the dict it returns counts every url once, as uploaded or as
\* failed; index_videos_batch is called once with exactly the ids of the
\* uploads that went through, and not at all when there are none.
C36_UploadsAreAccountedFor ==
    /\ Len(upload_log) <= Len(video_urls)
    /\ \A k \in 1..Len(upload_log) : upload_log[k].url = video_urls[k]
    /\ upload_pc \in {"index", "return"} => Len(upload_log) = Len(video_urls)
    /\ UploadReturned =>
          LET result == upload_result[1]
          IN  /\ result.total_videos = Len(video_urls)
              /\ result.uploaded_videos = Len(UploadedIn(upload_log))
              /\ result.failed_uploads = FailedIn(upload_log)
              /\ result.uploaded_videos + Len(result.failed_uploads) = Len(video_urls)
              /\ index_calls = IF UploadedIn(upload_log) = <<>> THEN <<>>
                               ELSE <<UploadedIn(upload_log)>>
    /\ ~UploadReturned => index_calls = <<>>

\* Of three urls the second failed to upload: two ids indexed, one url
\* reported failed.
C36_Witness ==
    /\ UploadReturned
    /\ Len(video_urls) = 3
    /\ upload_log[1].outcome.kind = "return"
    /\ upload_log[2].outcome.kind = "raise"
    /\ upload_log[3].outcome.kind = "return"
    /\ index_calls = <<<<"a", "c">>>>
    /\ upload_result[1].failed_uploads = <<"u2">>

(***************************************************************************)
(* Properties of the end of a batch of indexings.                          *)
(***************************************************************************)
\* C37: when index_videos_batch returns no task of the batch is running
\* or waiting and the outcome of each has been taken; and every entry of the
\* dict, at any moment, is the outcome of an indexing of that id that has
\* finished.
C37_ReturnsAfterAllFinished ==
    /\ BatchReturned =>
          /\ Running = {}
          /\ Pending = {}
          /\ \A i \in 1..Len(futures) : i \in collected
    /\ \A id \in DOMAIN batch_results :
          \E i \in FuturesOf(id) :
              /\ futures[i].state = "FINISHED"
              /\ batch_results[id] = (~futures[i].done.raised /\ futures[i].done.ret)

\* Three tasks on two workers have all finished and the dict is returned.
C37_Witness ==
    /\ BatchReturned
    /\ Len(futures) = 3
    /\ max_workers = 2
    /\ pool.threads = 2
    /\ \A i \in 1..Len(futures) : futures[i].state = "FINISHED"
    /\ Cardinality(DOMAIN batch_results) = 3

(***************************************************************************)
(* Properties of the connection.                                           *)
(***************************************************************************)
\* C38: a client makes at most one connection, and every call of
\* connect() that returns returns that connection, whichever threads call.
C38_ConnectsAtMostOnce ==
    /\ connections <= 1
    /\ \A i, j \in 1..Len(connect_log) :
          (connect_log[i].returned # None /\ connect_log[j].returned # None)
              => connect_log[i].returned = connect_log[j].returned

====
